---------------------------- MODULE Spec2Model ----------------------------
(***************************************************************************)
(* State-machine model of the CCTP bridging scripts:                       *)
(*   - the manual EVM -> Solana pipeline (burnUsdcOnEthereum,              *)
(*     waitForAttestation, createSolanaReceiveMessageTx,                   *)
(*     submitToFordefiApi, main), in its two variants: the one whose       *)
(*     builder derives the protocol accounts ("manual") and the one whose  *)
(*     builder takes a lookup-table address ("manualAlt"),                 *)
(*   - the Bridge Kit EVM -> Solana script (ensureRecipientTokenAccount,   *)
(*     bridgeUsdcEvmToSolana, main),                                       *)
(*   - the Bridge Kit EVM -> EVM script (main).                            *)
(* JavaScript strings are sequences of one-character strings, so that      *)
(* slice, startsWith and parseInt are computed as the code computes them.  *)
(***************************************************************************)
EXTENDS Integers, Sequences, FiniteSets, TLC

(***************************************************************************)
(* Bounds of the model (not program constants).                            *)
(***************************************************************************)
\* largest number of logs in the receipt of the burn transaction
MaxLogs == 2
\* largest number of entries in the attestation service's message list
MaxMessages == 2

(***************************************************************************)
(* Program constants.                                                      *)
(***************************************************************************)
USDC_DECIMALS == 6
FAST_FINALITY_THRESHOLD == 1000
STANDARD_FINALITY_THRESHOLD == 2000
FEE_NUMERATOR == 1
FEE_DENOMINATOR == 10000
FAST_MAX_ATTEMPTS == 60
STANDARD_MAX_ATTEMPTS == 240
POLL_INTERVAL_MS == 5000
LENGTH_FIELD_START == 66
MESSAGE_START == 130
HEX_RADIX == 16

(***************************************************************************)
(* JavaScript values.                                                      *)
(***************************************************************************)
\* undefined / null: a token that is no string of characters
Undefined == <<"undefined">>
\* a value that is truthy but no string (a number, an object)
NonString == <<"non-string">>
\* NaN, the result of parseInt on a string with no leading hex digit
NaN == 0 - 1
\* a numeric local that has not been assigned yet
NoRead == 0 - 1

IsString(v) == v # Undefined /\ v # NonString

\* the booleans true and false as values of a configuration field, which
\* may also be Undefined
True == <<"true">>
False == <<"false">>

\* the condition of `flag ? a : b` for a flag that is true, false or absent
ToBoolean(v) == v = True

\* JavaScript truthiness of a string-or-undefined value
Truthy(v) == v # Undefined /\ v # <<>>

Min(a, b) == IF a < b THEN a ELSE b

\* String.prototype.slice(start, end) for start, end >= 0 (0-based, end
\* exclusive, both clamped to the length); a NaN end counts as 0
Slice(s, start, end) ==
  LET e == IF end = NaN THEN 0 ELSE Min(end, Len(s))
      b == Min(start, Len(s))
  IN  IF b >= e THEN <<>> ELSE SubSeq(s, b + 1, e)

\* String.prototype.startsWith
StartsWith(s, p) == Len(s) >= Len(p) /\ SubSeq(s, 1, Len(p)) = p

HexDigits == {"0","1","2","3","4","5","6","7","8","9","a","b","c","d","e","f"}

HexVal(c) ==
  CASE c = "0" -> 0 [] c = "1" -> 1 [] c = "2" -> 2 [] c = "3" -> 3
    [] c = "4" -> 4 [] c = "5" -> 5 [] c = "6" -> 6 [] c = "7" -> 7
    [] c = "8" -> 8 [] c = "9" -> 9 [] c = "a" -> 10 [] c = "b" -> 11
    [] c = "c" -> 12 [] c = "d" -> 13 [] c = "e" -> 14 [] c = "f" -> 15

\* length of the longest prefix of s made of digits of the radix
HexPrefixLen(s) ==
  LET bad == { k \in 1..Len(s) : s[k] \notin HexDigits }
  IN  IF bad = {} THEN Len(s)
      ELSE (CHOOSE k \in bad : \A h \in bad : k <= h) - 1

RECURSIVE HexValue(_, _)
HexValue(s, acc) ==
  IF s = <<>> THEN acc ELSE HexValue(Tail(s), acc * HEX_RADIX + HexVal(Head(s)))

\* parseInt(s, 16): the value of the longest hex prefix, NaN when there is
\* none (leading zeros add nothing to the value and are skipped)
ParseIntHex(s) ==
  LET n  == HexPrefixLen(s)
      nz == { k \in 1..n : s[k] # "0" }
  IN  IF n = 0 THEN NaN
      ELSE IF nz = {} THEN 0
      ELSE HexValue(SubSeq(s, CHOOSE k \in nz : \A h \in nz : k <= h, n), 0)

RECURSIVE Pow10(_)
Pow10(n) == IF n = 0 THEN 1 ELSE 10 * Pow10(n - 1)

RECURSIVE DecValue(_, _)
DecValue(s, acc) ==
  IF s = <<>> THEN acc ELSE DecValue(Tail(s), acc * 10 + HexVal(Head(s)))

\* position of the first "." of s, Len(s) + 1 when there is none
RECURSIVE DotPos(_)
DotPos(s) == IF s = <<>> \/ Head(s) = "." THEN 1 ELSE 1 + DotPos(Tail(s))

\* viem parseUnits(value, decimals) for a non-negative decimal string whose
\* fraction has at most `decimals` digits: the fraction is padded with zeros
\* to `decimals` digits and appended to the integer part
parseUnits(value, decimals) ==
  LET d        == DotPos(value)
      integer  == SubSeq(value, 1, d - 1)
      fraction == SubSeq(value, d + 1, Len(value))
  IN  DecValue(integer, 0) * Pow10(decimals)
        + DecValue(fraction, 0) * Pow10(decimals - Len(fraction))

\* viem keccak256: a collision-free hash, kept symbolic
keccak256(bytes) == <<"keccak256", bytes>>

\* the decimal digit d as a character
Digit(d) == CHOOSE c \in HexDigits : HexVal(c) = d

\* a number written into a template literal: its decimal digits
RECURSIVE DecString(_)
DecString(n) ==
  IF n < 10 THEN << Digit(n) >> ELSE DecString(n \div 10) \o << Digit(n % 10) >>


(***************************************************************************)
(* Input universes.                                                        *)
(***************************************************************************)
\* "0.1", "0.00015", "2"
AmountStrings ==
  { <<"0", ".", "1">>, <<"0", ".", "0", "0", "0", "1", "5">>, <<"2">> }

\* a set value and the empty string, for a configuration field
RecipientValues == { <<"C", "t", "v">>, <<>> }
VaultValues == { <<"9", "5", "9">>, <<>> }

Arbitrum == <<"A", "r", "b", "i", "t", "r", "u", "m">>
Base == <<"B", "a", "s", "e">>
\* bridgeCongfig.chainFrom, set or absent
ChainNames == { Arbitrum, Undefined }
\* process.env.FORDEFI_API_USER_TOKEN, set or unset
ApiUserTokens == { <<"t", "o", "k">>, Undefined }
\* ./fordefi_secret/private.pem, its text or Undefined when there is no file
PayloadSignKeys == { <<"p", "e", "m">>, Undefined }

Scripts == {"manual", "manualAlt", "kitSolana", "kitEvm"}

\* the values config.ts is evaluated from; a field that is absent is
\* Undefined (or, for the two addresses, the empty string)
Configs ==
  [ ethereumChain          : ChainNames,
    amountUsdc             : AmountStrings \cup {Undefined},
    useFastTransfer        : {True, False, Undefined},
    solanaRecipientAddress : RecipientValues,
    fordefiVaultId         : VaultValues,
    apiUserToken           : ApiUserTokens,
    apiPayloadSignKey      : PayloadSignKeys ]

\* the third argument main passes to the builder that takes one
AltAddresses == { <<"A", "L", "T">>, Undefined }

\* readings of new Date().getTime()
Timestamps == {7, 42}

\* values a balanceOf / allowance read can return, around the amount needed
ReadValues(amount) == {0, amount - 1, amount, amount + 1}

PENDING == <<"P", "E", "N", "D", "I", "N", "G">>
HexPrefix == <<"0", "x">>

\* hash of the transaction the burn was sent in
BurnTxHash == <<"0", "x", "b", "1">>

\* 32-byte ABI word (64 hex digits) holding the small number n < 16
Word(n) ==
  [k \in 1..64 |-> IF k = 64
                     THEN CHOOSE c \in HexDigits : HexVal(c) = n
                     ELSE "0"]
Zeros(n) == [k \in 1..n |-> "0"]

\* data of a MessageSent(bytes) log: "0x", offset word, length word, bytes
EventDataOf(len, bytes) == HexPrefix \o Word(2) \o Word(len) \o bytes

EventDatas ==
  { EventDataOf(2, <<"a", "b", "c", "d">> \o Zeros(60)),  \* ABI-padded message
    EventDataOf(3, <<"a", "b", "c", "d">>),               \* cut short
    EventDataOf(0, <<>>),                                 \* empty message
    HexPrefix,                                            \* "0x": no data bytes
    <<>>,                                                 \* ""
    Undefined }

MessageSentSignature ==
  keccak256(<<"M","e","s","s","a","g","e","S","e","n","t","(","b","y","t","e","s",")">>)
OtherSignature == keccak256(<<"T","r","a","n","s","f","e","r">>)

\* a log of the receipt: topic0 is topics[0] (Undefined when topics is empty)
Logs ==
  [ topic0 : {MessageSentSignature}, data : EventDatas ]
    \cup [ topic0 : {OtherSignature, Undefined}, data : {HexPrefix} ]

RECURSIVE SeqsUpTo(_, _)
SeqsUpTo(S, n) ==
  IF n = 0 THEN { <<>> }
  ELSE LET shorter == SeqsUpTo(S, n - 1)
       IN  shorter \cup { Append(q, x) : q \in { t \in shorter : Len(t) = n - 1 }, x \in S }

\* receipts of the burn transaction; the code never reads the status
Receipts ==
  [ status : {"success"}, logs : SeqsUpTo(Logs, MaxLogs) ]
    \cup [ status : {"reverted"}, logs : { <<>> } ]

\* the message the attestation service echoes when it is not the burnt one
OtherMessage == <<"0", "x", "9", "9">>

ReadyAttestations == { HexPrefix, <<"0", "x", "a", "1">> }
NotReadyAttestations ==
  { Undefined, <<>>, PENDING, <<"a", "b">>, <<"0">>, <<"x", "0">>, NonString }

\* entries of data.messages; `isNull` is a null entry
FirstEntries(burnt) ==
  [ isNull : {FALSE}, message : {burnt}, attestation : NotReadyAttestations ]
    \cup [ isNull : {FALSE}, message : {burnt, OtherMessage},
           attestation : ReadyAttestations ]
    \cup [ isNull : {TRUE}, message : {Undefined}, attestation : {Undefined} ]
LaterEntries(burnt) ==
  [ isNull : {FALSE}, message : {burnt}, attestation : { <<"0", "x", "a", "1">> } ]

\* kind: "throw" (fetch rejects), "notOk" (response.ok is false), "badJson"
\* (response.json() rejects), "ok"; hasMessages: data.messages is present
FailedResponses ==
  [ kind : {"throw", "notOk", "badJson"}, hasMessages : {FALSE}, messages : { <<>> } ]
Responses(burnt) ==
  FailedResponses
    \cup [ kind : {"ok"}, hasMessages : BOOLEAN, messages : { <<>> } ]
    \cup [ kind : {"ok"}, hasMessages : {TRUE},
           messages : { <<f>> \o t : f \in FirstEntries(burnt),
                                     t \in SeqsUpTo(LaterEntries(burnt), MaxMessages - 1) } ]

NoResponse == [ kind |-> "none", hasMessages |-> FALSE, messages |-> <<>> ]
NoReceipt == [ status |-> "none", logs |-> <<>> ]
NoBurnReceipt ==
  [ txHash |-> Undefined, message |-> Undefined, messageHash |-> Undefined ]
NoAttestation == [ message |-> Undefined, attestation |-> Undefined ]
NoReport == [ minutes |-> NoRead, txHash |-> Undefined ]
NoRequest ==
  [ path |-> Undefined, accessToken |-> Undefined, signature |-> Undefined,
    timestamp |-> NoRead, requestBody |-> Undefined ]


(***************************************************************************)
(* State.                                                                  *)
(***************************************************************************)
VARIABLES
  script,               \* which script the process runs
  bridgeConfigSolana,   \* the static configuration
  pc,                   \* position of the process
  error,                \* the error thrown ("none" when none)
  reported,             \* the error was written to the console
  exitCode,             \* exit status of the process (NoRead while running)
  \* locals of burnUsdcOnEthereum
  amountInSmallestUnit, usdcBalance, currentAllowance, approveReceipt,
  newAllowance, receipt,
  chainTxs,             \* transactions submitted to the source chain, in order
  burnReceipt,          \* what burnUsdcOnEthereum returned
  \* waitForAttestation
  i,                    \* loop counter
  queries,              \* queries the running call has sent to the service
  waitedMs,             \* time the running call has spent in its fixed waits
  resp,                 \* response to the latest query
  attested,             \* what waitForAttestation returned
  timeoutReport,        \* what the timeout error of waitForAttestation says
  \* createSolanaReceiveMessageTx and submitToFordefiApi
  builds,               \* calls of createSolanaReceiveMessageTx
  base64SerializedTx,   \* the transaction built
  recipientAta,         \* the recipient's token account when the builder ran
  altLookup,            \* outcome of the builder's lookup-table resolution
  warned,               \* the builder wrote its lookup-table warning
  signedPayload,        \* the string handed to signWithApiSigner
  request,              \* the arguments handed to createAndSignTx
  apiResponse,          \* outcome of the call to the remote signer API
  submissions,          \* calls made to the remote signer API
  \* Bridge Kit scripts
  ataCreated,           \* ensureRecipientTokenAccount created the account
  bridgeCalls,          \* calls of kit.bridge
  bridgeResult          \* result.state of kit.bridge

burnLocals ==
  << amountInSmallestUnit, usdcBalance, currentAllowance, approveReceipt,
     newAllowance, receipt >>
pollVars == << i, queries, waitedMs, resp, attested, timeoutReport >>
buildVars == << builds, base64SerializedTx, recipientAta, altLookup, warned >>
submitVars == << signedPayload, request, apiResponse, submissions >>
relayVars == << buildVars, submitVars >>
kitVars == << ataCreated, bridgeCalls, bridgeResult >>
ctl == << script, bridgeConfigSolana >>
vars ==
  << script, bridgeConfigSolana, pc, error, reported, exitCode, burnLocals,
     chainTxs, burnReceipt, pollVars, relayVars, kitVars >>

NoTx == [ message |-> Undefined, attestation |-> Undefined, instructions |-> <<>> ]

Init ==
  /\ script \in Scripts
  /\ bridgeConfigSolana \in Configs
  /\ pc = "load"
  /\ error = "none"
  /\ reported = FALSE
  /\ exitCode = NoRead
  /\ amountInSmallestUnit = NoRead
  /\ usdcBalance = NoRead
  /\ currentAllowance = NoRead
  /\ approveReceipt = "none"
  /\ newAllowance = NoRead
  /\ receipt = NoReceipt
  /\ chainTxs = <<>>
  /\ burnReceipt = NoBurnReceipt
  /\ i = 0
  /\ queries = 0
  /\ waitedMs = 0
  /\ resp = NoResponse
  /\ attested = NoAttestation
  /\ timeoutReport = NoReport
  /\ builds = 0
  /\ base64SerializedTx = NoTx
  /\ recipientAta = "unknown"
  /\ altLookup = "none"
  /\ warned = FALSE
  /\ signedPayload = Undefined
  /\ request = NoRequest
  /\ apiResponse = "none"
  /\ submissions = 0
  /\ ataCreated = FALSE
  /\ bridgeCalls = 0
  /\ bridgeResult = "none"

\* a throw: every script's main ends in a handler that reports the error and
\* exits (a try/catch around the body, or main().catch); an exception thrown
\* while config.ts is evaluated is uncaught, and the runtime does the same:
\* it prints the error and ends the process with status 1
Throw(e) ==
  /\ pc' = "catch"
  /\ error' = e

Goto(l) ==
  /\ pc' = l
  /\ error' = error

(***************************************************************************)
(* Evaluation of config.ts, which every script imports.                    *)
(***************************************************************************)
\* getChainId: the id of a supported chain, NoRead standing for the throw
\* of the default branch
getChainId(chainName) ==
  CASE chainName = <<"E", "t", "h", "e", "r", "e", "u", "m">> -> 1
    [] chainName = Base -> 8453
    [] chainName = Arbitrum -> 42161
    [] chainName = <<"O", "p", "t", "i", "m", "i", "s", "m">> -> 10
    [] chainName = <<"P", "o", "l", "y", "g", "o", "n">> -> 137
    [] OTHER -> NoRead

\* process.env.FORDEFI_API_USER_TOKEN ?? (() => { throw ... })()
TokenMissing(token) == token = Undefined

\* the module body: getChainId(chainFrom), the user token, the key file
\* (readFileSync throws when the file is not there)
ConfigLoad ==
  /\ pc = "load"
  /\ IF getChainId(bridgeConfigSolana.ethereumChain) = NoRead
       THEN Throw("UnsupportedChain")
       ELSE IF TokenMissing(bridgeConfigSolana.apiUserToken)
              THEN Throw("ApiUserTokenNotSet")
              ELSE IF bridgeConfigSolana.apiPayloadSignKey = Undefined
                     THEN Throw("KeyFileUnreadable")
                     ELSE Goto("main")
  /\ UNCHANGED << ctl, reported, exitCode, burnLocals, chainTxs, burnReceipt,
                  pollVars, relayVars, kitVars >>

\* the builder of the "manualAlt" variant reads createAtaInstruction and
\* instruction, which are declared nowhere: a build that type-checks refuses
\* the script before anything runs (a build that only transpiles lets it
\* run, and the read throws when the builder reaches it)
TypeCheckRejects ==
  /\ pc = "load"
  /\ script = "manualAlt"
  /\ Throw("CompileFailed")
  /\ UNCHANGED << ctl, reported, exitCode, burnLocals, chainTxs, burnReceipt,
                  pollVars, relayVars, kitVars >>

(***************************************************************************)
(* main of the manual pipeline.                                            *)
(***************************************************************************)
\* the configuration checks that open main
MainStart ==
  /\ pc = "main"
  /\ script \in {"manual", "manualAlt"}
  /\ IF ~Truthy(bridgeConfigSolana.solanaRecipientAddress)
       THEN Throw("RecipientNotSet")
       ELSE IF ~Truthy(bridgeConfigSolana.fordefiVaultId)
              THEN Throw("VaultNotSet")
              ELSE Goto("burn_init")
  /\ UNCHANGED << ctl, reported, exitCode, burnLocals, chainTxs, burnReceipt,
                  pollVars, relayVars, kitVars >>

\* the catch block of main, and main().catch: report and exit(1)
MainCatch ==
  /\ pc = "catch"
  /\ reported' = TRUE
  /\ exitCode' = 1
  /\ Goto("exited")
  /\ UNCHANGED << ctl, burnLocals, chainTxs, burnReceipt, pollVars, relayVars,
                  kitVars >>

\* main returned without an error: the process ends with status 0
MainComplete ==
  /\ pc = "completed"
  /\ exitCode' = 0
  /\ Goto("exited")
  /\ UNCHANGED << ctl, reported, burnLocals, chainTxs, burnReceipt, pollVars,
                  relayVars, kitVars >>


(***************************************************************************)
(* burnUsdcOnEthereum.                                                     *)
(***************************************************************************)
\* mutant: only an empty balance is refused
InsufficientBalanceZeroOnly(balance, amount) == balance = 0

\* the balance check before anything is submitted
InsufficientBalance(balance, amount) == balance < amount

\* mutant: an allowance equal to the amount is approved again
NeedsApprovalInclusive(allowance, amount) == allowance <= amount

\* mutant: an approval is sent whatever the allowance is
NeedsApprovalAlways(allowance, amount) == allowance >= 0

\* the allowance check that decides whether an approval is sent
NeedsApproval(allowance, amount) == allowance < amount

\* mutant: a reverted approval is let through
ApprovalFailedNever(status) == status = "none"

\* the check of the approval's receipt
ApprovalFailed(status) == status # "success"

minFinalityThreshold(useFastTransfer) ==
  IF ToBoolean(useFastTransfer)
    THEN FAST_FINALITY_THRESHOLD
    ELSE STANDARD_FINALITY_THRESHOLD

\* mutant: the fee is charged in standard mode too
maxFeeAnyMode(amount, useFastTransfer) ==
  (amount * FEE_NUMERATOR) \div FEE_DENOMINATOR

\* (amountInSmallestUnit * BigInt(1)) / BigInt(10000), BigInt division
maxFee(amount, useFastTransfer) ==
  IF ToBoolean(useFastTransfer)
    THEN (amount * FEE_NUMERATOR) \div FEE_DENOMINATOR
    ELSE 0

ApproveTx(amount) ==
  [ kind |-> "approve", amount |-> amount, maxFee |-> NoRead,
    minFinalityThreshold |-> NoRead ]

\* the depositForBurn call sent with eth_sendTransaction
BurnTx(amount, useFastTransfer) ==
  [ kind |-> "burn", amount |-> amount,
    maxFee |-> maxFee(amount, useFastTransfer),
    minFinalityThreshold |-> minFinalityThreshold(useFastTransfer) ]

\* receipt.logs.find(log => log.topics[0] === messageSentEventSignature):
\* the index of the first such log, 0 when there is none
FindMessageSentLog(logs) ==
  LET hits == { k \in 1..Len(logs) : logs[k].topic0 = MessageSentSignature }
  IN  IF hits = {} THEN 0 ELSE CHOOSE k \in hits : \A h \in hits : k <= h

\* mutant: the data of the log is not tested
MessageSentMissingTopicOnly(logs) == FindMessageSentLog(logs) = 0

\* !messageSentLog || !messageSentLog.data
MessageSentMissing(logs) ==
  LET k == FindMessageSentLog(logs)
  IN  k = 0 \/ ~Truthy(logs[k].data)

\* the message cut out of the event data
ExtractMessage(eventData) ==
  LET lengthHex     == Slice(eventData, LENGTH_FIELD_START, MESSAGE_START)
      messageLength == ParseIntHex(lengthHex)
      end           == IF messageLength = NaN THEN NaN
                       ELSE MESSAGE_START + messageLength * 2
  IN  HexPrefix \o Slice(eventData, MESSAGE_START, end)

\* mutant: the hash is taken of the whole event data
BurnResultHashesEventData(logs) ==
  LET eventData == logs[FindMessageSentLog(logs)].data
  IN  [ txHash |-> BurnTxHash, message |-> ExtractMessage(eventData),
        messageHash |-> keccak256(eventData) ]

\* the record burnUsdcOnEthereum returns for a receipt that has the event
BurnResult(logs) ==
  LET message == ExtractMessage(logs[FindMessageSentLog(logs)].data)
  IN  [ txHash |-> BurnTxHash, message |-> message,
        messageHash |-> keccak256(message) ]

\* getProvider, the clients, getAddresses, the recipient's bytes, parseUnits
\* (which calls a string method of its argument, and throws when the amount
\* is no string)
BurnInit ==
  /\ pc = "burn_init"
  /\ \E provider \in {"ok", "null", "throws"} :
       CASE provider = "null"   -> /\ Throw("ProviderInitFailed")
                                   /\ UNCHANGED amountInSmallestUnit
         [] provider = "throws" -> /\ Throw("ProviderError")
                                   /\ UNCHANGED amountInSmallestUnit
         [] provider = "ok"     ->
              IF ~IsString(bridgeConfigSolana.amountUsdc)
                THEN /\ Throw("ParseUnitsFailed")
                     /\ UNCHANGED amountInSmallestUnit
                ELSE /\ amountInSmallestUnit' =
                          parseUnits(bridgeConfigSolana.amountUsdc, USDC_DECIMALS)
                     /\ Goto("burn_balance")
  /\ UNCHANGED << ctl, reported, exitCode, usdcBalance, currentAllowance,
                  approveReceipt, newAllowance, receipt, chainTxs, burnReceipt,
                  pollVars, relayVars, kitVars >>

\* balanceOf and the balance check
BurnReadBalance ==
  /\ pc = "burn_balance"
  /\ \/ /\ Throw("ReadFailed")
        /\ UNCHANGED usdcBalance
     \/ \E b \in ReadValues(amountInSmallestUnit) :
          /\ usdcBalance' = b
          /\ IF InsufficientBalance(b, amountInSmallestUnit)
               THEN Throw("InsufficientBalance")
               ELSE Goto("burn_allowance")
  /\ UNCHANGED << ctl, reported, exitCode, amountInSmallestUnit,
                  currentAllowance, approveReceipt, newAllowance, receipt,
                  chainTxs, burnReceipt, pollVars, relayVars, kitVars >>

\* allowance and the choice between approving first and burning directly
BurnReadAllowance ==
  /\ pc = "burn_allowance"
  /\ \/ /\ Throw("ReadFailed")
        /\ UNCHANGED currentAllowance
     \/ \E a \in ReadValues(amountInSmallestUnit) :
          /\ currentAllowance' = a
          /\ IF NeedsApproval(a, amountInSmallestUnit)
               THEN Goto("approve_send")
               ELSE Goto("burn_send")
  /\ UNCHANGED << ctl, reported, exitCode, amountInSmallestUnit, usdcBalance,
                  approveReceipt, newAllowance, receipt, chainTxs, burnReceipt,
                  pollVars, relayVars, kitVars >>

\* walletClient.writeContract(approve)
ApproveSend ==
  /\ pc = "approve_send"
  /\ \/ /\ Throw("ApproveSendFailed")
        /\ UNCHANGED chainTxs
     \/ /\ chainTxs' = Append(chainTxs, ApproveTx(amountInSmallestUnit))
        /\ Goto("approve_wait")
  /\ UNCHANGED << ctl, reported, exitCode, burnLocals, burnReceipt, pollVars,
                  relayVars, kitVars >>

\* waitForTransactionReceipt of the approval and the check of its status
ApproveWait ==
  /\ pc = "approve_wait"
  /\ \/ /\ Throw("ReceiptFailed")
        /\ UNCHANGED approveReceipt
     \/ \E status \in {"success", "reverted"} :
          /\ approveReceipt' = status
          /\ IF ApprovalFailed(status)
               THEN Throw("ApprovalFailed")
               ELSE Goto("approve_recheck")
  /\ UNCHANGED << ctl, reported, exitCode, amountInSmallestUnit, usdcBalance,
                  currentAllowance, newAllowance, receipt, chainTxs,
                  burnReceipt, pollVars, relayVars, kitVars >>

\* the allowance read again after the approval, its check, the 2 s pause
ApproveRecheck ==
  /\ pc = "approve_recheck"
  /\ \/ /\ Throw("ReadFailed")
        /\ UNCHANGED newAllowance
     \/ \E a \in ReadValues(amountInSmallestUnit) :
          /\ newAllowance' = a
          /\ IF a < amountInSmallestUnit
               THEN Throw("AllowanceStillInsufficient")
               ELSE Goto("burn_send")
  /\ UNCHANGED << ctl, reported, exitCode, amountInSmallestUnit, usdcBalance,
                  currentAllowance, approveReceipt, receipt, chainTxs,
                  burnReceipt, pollVars, relayVars, kitVars >>

\* the burn parameters and eth_sendTransaction
BurnSend ==
  /\ pc = "burn_send"
  /\ \/ /\ Throw("BurnSendFailed")
        /\ UNCHANGED chainTxs
     \/ /\ chainTxs' =
             Append(chainTxs, BurnTx(amountInSmallestUnit,
                                     bridgeConfigSolana.useFastTransfer))
        /\ Goto("burn_wait")
  /\ UNCHANGED << ctl, reported, exitCode, burnLocals, burnReceipt, pollVars,
                  relayVars, kitVars >>

\* waitForTransactionReceipt of the burn
BurnWait ==
  /\ pc = "burn_wait"
  /\ \/ /\ Throw("ReceiptFailed")
        /\ UNCHANGED receipt
     \/ \E r \in Receipts :
          /\ receipt' = r
          /\ Goto("burn_parse")
  /\ UNCHANGED << ctl, reported, exitCode, amountInSmallestUnit, usdcBalance,
                  currentAllowance, approveReceipt, newAllowance, chainTxs,
                  burnReceipt, pollVars, relayVars, kitVars >>

\* the search for the MessageSent log, the extraction of the message and the
\* return to main, which calls waitForAttestation next
BurnParse ==
  /\ pc = "burn_parse"
  /\ IF MessageSentMissing(receipt.logs)
       THEN /\ Throw("MissingBurnEvent")
            /\ UNCHANGED << burnLocals, burnReceipt >>
       ELSE /\ burnReceipt' = BurnResult(receipt.logs)
            /\ amountInSmallestUnit' = NoRead
            /\ usdcBalance' = NoRead
            /\ currentAllowance' = NoRead
            /\ approveReceipt' = "none"
            /\ newAllowance' = NoRead
            /\ receipt' = NoReceipt
            /\ Goto("wa_fetch")
  /\ UNCHANGED << ctl, reported, exitCode, chainTxs, pollVars, relayVars,
                  kitVars >>


(***************************************************************************)
(* waitForAttestation.                                                     *)
(***************************************************************************)
MAX_ATTEMPTS(isFastTransfer) ==
  IF ToBoolean(isFastTransfer) THEN FAST_MAX_ATTEMPTS ELSE STANDARD_MAX_ATTEMPTS

\* mutant: the duration of the fast mode is reported in both modes
timeoutMinutesFastOnly(isFastTransfer) ==
  IF ToBoolean(isFastTransfer) THEN 5 ELSE 5

\* the duration the timeout error reports
timeoutMinutes(isFastTransfer) == IF ToBoolean(isFastTransfer) THEN 5 ELSE 20

\* mutant: the prefix test is left out
isAttestationReadyNoPrefix(attestation) ==
  /\ Truthy(attestation)
  /\ attestation # PENDING
  /\ IsString(attestation)

\* mutant: only the presence of the attestation is tested
isAttestationReadyPresentOnly(attestation) ==
  /\ Truthy(attestation)
  /\ IsString(attestation)

\* messageData.attestation && messageData.attestation !== "PENDING" &&
\* messageData.attestation.startsWith("0x"); for a truthy value that is no
\* string startsWith is no function: the TypeError is caught by the loop's
\* catch, like a value that is not ready
isAttestationReady(attestation) ==
  /\ Truthy(attestation)
  /\ attestation # PENDING
  /\ IsString(attestation)
  /\ StartsWith(attestation, HexPrefix)

\* mutant: an entry after the first can make the attempt return
AttemptReturnsAnyEntry(r) ==
  /\ r.kind = "ok"
  /\ r.hasMessages
  /\ Len(r.messages) > 0
  /\ \E k \in 1..Len(r.messages) :
       /\ ~r.messages[k].isNull
       /\ isAttestationReady(r.messages[k].attestation)

\* the body of the try block returns: the response is ok, data.messages has
\* an entry, and the first entry's attestation is ready. A rejected fetch or
\* json(), or a null first entry, throws inside the try and is caught.
AttemptReturns(r) ==
  /\ r.kind = "ok"
  /\ r.hasMessages
  /\ Len(r.messages) > 0
  /\ ~r.messages[1].isNull
  /\ isAttestationReady(r.messages[1].attestation)

\* an exception is thrown inside the try block: fetch or json() rejects, the
\* first entry is null, or its attestation is truthy and has no startsWith
AttemptThrows(r) ==
  \/ r.kind \in {"throw", "badJson"}
  \/ /\ r.kind = "ok"
     /\ r.hasMessages
     /\ Len(r.messages) > 0
     /\ \/ r.messages[1].isNull
        \/ r.messages[1].attestation = NonString

\* mutant: the catch block lets the exception out to main
OnAttemptErrorSurfaced == "catch"

\* the catch block of the loop: nothing is done ("Silent retry") and control
\* falls to the wait that ends the attempt
OnAttemptError == "wa_sleep"

\* what waitForAttestation returns from response r
AttestationResult(r) ==
  [ message |-> r.messages[1].message, attestation |-> r.messages[1].attestation ]

\* mutant: the loop test is off by one (i <= MAX_ATTEMPTS)
AfterWaitOffByOne(n, isFastTransfer) ==
  IF n + 1 <= MAX_ATTEMPTS(isFastTransfer) THEN "wa_fetch" ELSE "timeout"

\* where the loop goes after the wait that ends attempt number n (0-based)
AfterWait(n, isFastTransfer) ==
  IF n + 1 < MAX_ATTEMPTS(isFastTransfer) THEN "wa_fetch" ELSE "timeout"

\* what the error thrown after the loop says: the duration and the hash of
\* the burn transaction the caller passed in
TimeoutError(isFastTransfer, txHash) ==
  [ minutes |-> timeoutMinutes(isFastTransfer), txHash |-> txHash ]

\* one query of the attestation service and the handling of its response;
\* on a return to main the frame of the call (its counter and tallies) is
\* dropped, and main calls createSolanaReceiveMessageTx next
WaFetch ==
  /\ pc = "wa_fetch"
  /\ \E r \in Responses(burnReceipt.message) :
       /\ resp' = r
       /\ IF AttemptReturns(r)
            THEN /\ attested' = AttestationResult(r)
                 /\ i' = 0
                 /\ queries' = 0
                 /\ waitedMs' = 0
                 /\ Goto("build")
            ELSE /\ queries' = queries + 1
                 /\ UNCHANGED << attested, i, waitedMs >>
                 /\ IF AttemptThrows(r)
                      THEN Goto(OnAttemptError)
                      ELSE Goto("wa_sleep")
  /\ UNCHANGED << ctl, reported, exitCode, burnLocals, chainTxs, burnReceipt,
                  timeoutReport, relayVars, kitVars >>

\* the fixed wait that ends an attempt, i++, the loop test (the response of
\* the attempt goes out of scope with the loop body), and the throw that
\* follows the loop
WaSleep ==
  /\ pc = "wa_sleep"
  /\ waitedMs' = waitedMs + POLL_INTERVAL_MS
  /\ i' = i + 1
  /\ LET next == AfterWait(i, bridgeConfigSolana.useFastTransfer)
     IN  IF next = "timeout"
           THEN /\ Throw("AttestationTimeout")
                /\ timeoutReport' =
                     TimeoutError(bridgeConfigSolana.useFastTransfer,
                                  burnReceipt.txHash)
                /\ UNCHANGED resp
           ELSE /\ resp' = NoResponse
                /\ Goto(next)
                /\ UNCHANGED timeoutReport
  /\ UNCHANGED << ctl, reported, exitCode, burnLocals, chainTxs, burnReceipt,
                  queries, attested, relayVars, kitVars >>

(***************************************************************************)
(* createSolanaReceiveMessageTx.                                           *)
(***************************************************************************)
\* mutant: the token pair is passed as writable
accountMetasTokenPairWritable ==
  << [ isSigner |-> FALSE, isWritable |-> FALSE, pubkey |-> "tokenMessengerAccount" ],
     [ isSigner |-> FALSE, isWritable |-> FALSE, pubkey |-> "remoteTokenMessengerKey" ],
     [ isSigner |-> FALSE, isWritable |-> TRUE,  pubkey |-> "tokenMinterAccount" ],
     [ isSigner |-> FALSE, isWritable |-> TRUE,  pubkey |-> "localToken" ],
     [ isSigner |-> FALSE, isWritable |-> TRUE,  pubkey |-> "tokenPair" ],
     [ isSigner |-> FALSE, isWritable |-> TRUE,  pubkey |-> "feeRecipientTokenAccount" ],
     [ isSigner |-> FALSE, isWritable |-> TRUE,  pubkey |-> "userTokenAccount" ],
     [ isSigner |-> FALSE, isWritable |-> TRUE,  pubkey |-> "custodyTokenAccount" ],
     [ isSigner |-> FALSE, isWritable |-> FALSE, pubkey |-> "TOKEN_PROGRAM_ID" ],
     [ isSigner |-> FALSE, isWritable |-> FALSE, pubkey |-> "tokenMessengerEventAuthority" ],
     [ isSigner |-> FALSE, isWritable |-> FALSE, pubkey |-> "tokenMessengerMinterProgram" ] >>

\* the list passed to remainingAccounts, in the order of the pushes; an
\* account is named by the expression the code takes its key from
accountMetas ==
  << [ isSigner |-> FALSE, isWritable |-> FALSE, pubkey |-> "tokenMessengerAccount" ],
     [ isSigner |-> FALSE, isWritable |-> FALSE, pubkey |-> "remoteTokenMessengerKey" ],
     [ isSigner |-> FALSE, isWritable |-> TRUE,  pubkey |-> "tokenMinterAccount" ],
     [ isSigner |-> FALSE, isWritable |-> TRUE,  pubkey |-> "localToken" ],
     [ isSigner |-> FALSE, isWritable |-> FALSE, pubkey |-> "tokenPair" ],
     [ isSigner |-> FALSE, isWritable |-> TRUE,  pubkey |-> "feeRecipientTokenAccount" ],
     [ isSigner |-> FALSE, isWritable |-> TRUE,  pubkey |-> "userTokenAccount" ],
     [ isSigner |-> FALSE, isWritable |-> TRUE,  pubkey |-> "custodyTokenAccount" ],
     [ isSigner |-> FALSE, isWritable |-> FALSE, pubkey |-> "TOKEN_PROGRAM_ID" ],
     [ isSigner |-> FALSE, isWritable |-> FALSE, pubkey |-> "tokenMessengerEventAuthority" ],
     [ isSigner |-> FALSE, isWritable |-> FALSE, pubkey |-> "tokenMessengerMinterProgram" ] >>

\* String.prototype.replace("0x", ""): the first occurrence of "0x" is cut
\* out of the string
Replace0x(s) ==
  LET hits == { k \in 1..(Len(s) - 1) : s[k] = "0" /\ s[k + 1] = "x" }
  IN  IF hits = {} THEN s
      ELSE LET k == CHOOSE h \in hits : \A g \in hits : h <= g
           IN  SubSeq(s, 1, k - 1) \o SubSeq(s, k + 2, Len(s))

\* Buffer.from(s, "hex"): one byte for every pair of hex digits, up to the
\* first character that is no hex digit; a last digit without a partner is
\* dropped. A byte is kept as its pair of digits.
HexDecode(s) ==
  [ k \in 1..(HexPrefixLen(s) \div 2) |-> << s[2 * k - 1], s[2 * k] >> ]

\* the instruction built by receiveMessage(...).accounts(...).remainingAccounts
ReceiveInstruction(message, attestation) ==
  [ kind |-> "receiveMessage",
    data |-> [ message |-> HexDecode(Replace0x(message)),
               attestation |-> HexDecode(Replace0x(attestation)) ],
    remainingAccounts |-> accountMetas ]

\* the transaction message compiled from the one instruction pushed; main
\* passes the message of the burn and the attestation of the poller
ReceiveTx(message, attestation) ==
  [ message |-> message, attestation |-> attestation,
    instructions |-> << ReceiveInstruction(message, attestation) >> ]

\* states of the recipient's associated token account on the destination
\* chain at the time the builder runs; the builder derives its address and
\* asks nothing about it
AtaStates == {"exists", "missing"}

\* the receive transaction is built from main's message and attestation; the
\* PDA derivation, the instruction build and getLatestBlockhash may fail
CreateSolanaReceiveMessageTx ==
  /\ pc = "build"
  /\ script = "manual"
  /\ builds' = builds + 1
  /\ recipientAta' \in AtaStates
  /\ \/ /\ Throw("AccountResolutionFailed")
        /\ UNCHANGED base64SerializedTx
     \/ /\ base64SerializedTx' =
             ReceiveTx(burnReceipt.message, attested.attestation)
        /\ Goto("submit")
  /\ UNCHANGED << ctl, reported, exitCode, burnLocals, chainTxs, burnReceipt,
                  pollVars, altLookup, warned, submitVars, kitVars >>

\* outcomes of connection.getAddressLookupTable: a table, no table (value is
\* null), or a rejected call
AltLookups == {"found", "notFound", "throws"}

\* console.warn is reached when a lookup-table address was passed and the
\* lookup returned no table
AltWarning(lookup) == lookup = "notFound"

\* the builder that takes a lookup-table address: getLatestBlockhash, the
\* resolution of the table, then the read of createAtaInstruction, which is
\* declared nowhere and throws a ReferenceError before a transaction is
\* compiled
CreateSolanaReceiveMessageTxAlt ==
  /\ pc = "build"
  /\ script = "manualAlt"
  /\ builds' = builds + 1
  /\ recipientAta' \in AtaStates
  /\ \/ /\ Throw("AccountResolutionFailed")
        /\ UNCHANGED << altLookup, warned >>
     \/ \E altAddress \in AltAddresses :
          IF Truthy(altAddress)
            THEN \E lookup \in AltLookups :
                   /\ altLookup' = lookup
                   /\ warned' = AltWarning(lookup)
                   /\ IF lookup = "throws"
                        THEN Throw("AccountResolutionFailed")
                        ELSE Throw("ReferenceError")
            ELSE /\ altLookup' = "notSupplied"
                 /\ Throw("ReferenceError")
                 /\ UNCHANGED warned
  /\ UNCHANGED << ctl, reported, exitCode, burnLocals, chainTxs, burnReceipt,
                  pollVars, base64SerializedTx, submitVars, kitVars >>

(***************************************************************************)
(* submitToFordefiApi.                                                     *)
(***************************************************************************)
\* "/api/v1/transactions"
ApiPath ==
  << "/", "a", "p", "i", "/", "v", "1", "/", "t", "r", "a", "n", "s", "a",
     "c", "t", "i", "o", "n", "s" >>

\* the text of the base64 string of a transaction: one piece of text that
\* differs for different transactions
Base64Text(tx) == << ToString(tx) >>

\* the object submitToFordefiApi serialises
fordefiApiPayload(vaultId, data) ==
  [ vault_id |-> vaultId, signer_type |-> "api_signer", sign_mode |-> "auto",
    type |-> "solana_transaction",
    details |-> [ type |-> "solana_serialized_transaction_message",
                  push_mode |-> "auto", chain |-> "solana_mainnet",
                  data |-> data ] ]

\* JSON.stringify of that object: its text, as the sequence of its pieces
\* (keys in insertion order, no white space)
JSONStringify(p) ==
  << "{\"vault_id\":\"" >> \o p.vault_id
    \o << "\",\"signer_type\":\"", p.signer_type,
          "\",\"sign_mode\":\"", p.sign_mode,
          "\",\"type\":\"", p.type,
          "\",\"details\":{\"type\":\"", p.details.type,
          "\",\"push_mode\":\"", p.details.push_mode,
          "\",\"chain\":\"", p.details.chain,
          "\",\"data\":\"" >>
    \o p.details.data \o << "\"}}" >>

\* mutant: the body is put before the timestamp
payloadBodyFirst(timestamp, requestBody) ==
  ApiPath \o << "|" >> \o requestBody \o << "|" >> \o DecString(timestamp)

\* `${"/api/v1/transactions"}|${timestamp}|${requestBody}`
payload(timestamp, requestBody) ==
  ApiPath \o << "|" >> \o DecString(timestamp) \o << "|" >> \o requestBody

\* the signature of a string under a key: deterministic, kept symbolic
signWithApiSigner(text, key) == << "signature", text, key >>

\* the body, the timestamp and the string to sign are built, the string is
\* signed (which may throw), and createAndSignTx is called with the same
\* timestamp and body
SubmitToFordefiApi ==
  /\ pc = "submit"
  /\ \E timestamp \in Timestamps :
       LET requestBody ==
             JSONStringify(fordefiApiPayload(bridgeConfigSolana.fordefiVaultId,
                                             Base64Text(base64SerializedTx)))
           text == payload(timestamp, requestBody)
       IN  /\ signedPayload' = text
           /\ \/ /\ Throw("SigningFailed")
                 /\ UNCHANGED request
              \/ /\ request' =
                      [ path |-> ApiPath,
                        accessToken |-> bridgeConfigSolana.apiUserToken,
                        signature |->
                          signWithApiSigner(text,
                                            bridgeConfigSolana.apiPayloadSignKey),
                        timestamp |-> timestamp,
                        requestBody |-> requestBody ]
                 /\ Goto("submit_call")
  /\ UNCHANGED << ctl, reported, exitCode, burnLocals, chainTxs, burnReceipt,
                  pollVars, buildVars, apiResponse, submissions, kitVars >>

\* mutant: a failed call is logged and the function returns
OnSubmissionErrorSwallowed == "completed"

\* the call is awaited outside any try block and is not repeated: its
\* rejection leaves submitToFordefiApi and reaches the catch block of main
OnSubmissionError == "catch"

\* outcomes of the one HTTP call createAndSignTx makes
ApiResponses == {"ok", "failed"}

\* createAndSignTx: one POST carrying the signature, the timestamp and the
\* body; a response that is no success is thrown to the caller
CreateAndSignTx ==
  /\ pc = "submit_call"
  /\ submissions' = submissions + 1
  /\ \E response \in ApiResponses :
       /\ apiResponse' = response
       /\ IF response = "failed"
            THEN /\ pc' = OnSubmissionError
                 /\ error' = IF OnSubmissionError = "catch"
                               THEN "RemoteSubmissionFailed" ELSE error
            ELSE Goto("completed")
  /\ UNCHANGED << ctl, reported, exitCode, burnLocals, chainTxs, burnReceipt,
                  pollVars, buildVars, signedPayload, request, kitVars >>

(***************************************************************************)
(* The Bridge Kit scripts.                                                 *)
(***************************************************************************)
BridgeStates == {"success", "pending", "error"}

\* main of the Bridge Kit EVM -> Solana script: the recipient check
KitSolanaMain ==
  /\ pc = "main"
  /\ script = "kitSolana"
  /\ IF ~Truthy(bridgeConfigSolana.solanaRecipientAddress)
       THEN Throw("RecipientNotSet")
       ELSE Goto("ks_init")
  /\ UNCHANGED << ctl, reported, exitCode, burnLocals, chainTxs, burnReceipt,
                  pollVars, relayVars, kitVars >>

\* bridgeUsdcEvmToSolana up to the call of ensureRecipientTokenAccount
KitSolanaInit ==
  /\ pc = "ks_init"
  /\ \E provider \in {"ok", "null", "throws"} :
       CASE provider = "null"   -> Throw("ProviderInitFailed")
         [] provider = "throws" -> Throw("ProviderError")
         [] provider = "ok"     -> Goto("ks_ata")
  /\ UNCHANGED << ctl, reported, exitCode, burnLocals, chainTxs, burnReceipt,
                  pollVars, relayVars, kitVars >>

\* ensureRecipientTokenAccount: the account is looked up and, when it is not
\* there, created in a transaction of its own that is sent and confirmed
EnsureRecipientTokenAccount ==
  /\ pc = "ks_ata"
  /\ \E accountInfo \in {"exists", "missing", "throws"} :
       CASE accountInfo = "throws" -> /\ Throw("AccountResolutionFailed")
                                      /\ UNCHANGED ataCreated
         [] accountInfo = "exists" -> /\ Goto("ks_bridge")
                                      /\ UNCHANGED ataCreated
         [] accountInfo = "missing" ->
              \/ /\ Throw("AccountCreationFailed")
                 /\ UNCHANGED ataCreated
              \/ /\ ataCreated' = TRUE
                 /\ Goto("ks_bridge")
  /\ UNCHANGED << ctl, reported, exitCode, burnLocals, chainTxs, burnReceipt,
                  pollVars, relayVars, bridgeCalls, bridgeResult >>

\* kit.bridge and the printing of its result; a result in the state "error"
\* or "pending" is printed and the function returns normally
KitSolanaBridge ==
  /\ pc = "ks_bridge"
  /\ bridgeCalls' = bridgeCalls + 1
  /\ \/ /\ Throw("BridgeThrew")
        /\ UNCHANGED bridgeResult
     \/ \E state \in BridgeStates :
          /\ bridgeResult' = state
          /\ Goto("completed")
  /\ UNCHANGED << ctl, reported, exitCode, burnLocals, chainTxs, burnReceipt,
                  pollVars, relayVars, ataCreated >>

\* main of the Bridge Kit EVM -> EVM script: the two providers and adapters
KitEvmInit ==
  /\ pc = "main"
  /\ script = "kitEvm"
  /\ \E from_provider \in {"ok", "null", "throws"},
        to_provider \in {"ok", "null", "throws"} :
       IF from_provider = "ok" /\ to_provider = "ok"
         THEN Goto("ke_bridge")
         ELSE IF from_provider = "throws"
                   \/ (from_provider = "ok" /\ to_provider = "throws")
                THEN Throw("ProviderError")
                ELSE Throw("ProviderInitFailed")
  /\ UNCHANGED << ctl, reported, exitCode, burnLocals, chainTxs, burnReceipt,
                  pollVars, relayVars, kitVars >>

\* kit.bridge and the printing of its result, whatever its state
KitEvmBridge ==
  /\ pc = "ke_bridge"
  /\ bridgeCalls' = bridgeCalls + 1
  /\ \/ /\ Throw("BridgeThrew")
        /\ UNCHANGED bridgeResult
     \/ \E state \in BridgeStates :
          /\ bridgeResult' = state
          /\ Goto("completed")
  /\ UNCHANGED << ctl, reported, exitCode, burnLocals, chainTxs, burnReceipt,
                  pollVars, relayVars, ataCreated >>

Next ==
  \/ ConfigLoad
  \/ TypeCheckRejects
  \/ MainStart
  \/ MainCatch
  \/ MainComplete
  \/ BurnInit
  \/ BurnReadBalance
  \/ BurnReadAllowance
  \/ ApproveSend
  \/ ApproveWait
  \/ ApproveRecheck
  \/ BurnSend
  \/ BurnWait
  \/ BurnParse
  \/ WaFetch
  \/ WaSleep
  \/ CreateSolanaReceiveMessageTx
  \/ CreateSolanaReceiveMessageTxAlt
  \/ SubmitToFordefiApi
  \/ CreateAndSignTx
  \/ KitSolanaMain
  \/ KitSolanaInit
  \/ EnsureRecipientTokenAccount
  \/ KitSolanaBridge
  \/ KitEvmInit
  \/ KitEvmBridge

Spec == Init /\ [][Next]_vars


(***************************************************************************)
(* Properties.                                                             *)
(***************************************************************************)
\* the first entry of the latest response was examined by the readiness test
Examined ==
  /\ resp.kind = "ok"
  /\ resp.hasMessages
  /\ Len(resp.messages) > 0
  /\ ~resp.messages[1].isNull

\* present (non-empty), not "PENDING", and starting with "0x"
WellFormed(a) ==
  /\ a # Undefined
  /\ a # <<>>
  /\ a # PENDING
  /\ Len(a) >= 2
  /\ a[1] = "0"
  /\ a[2] = "x"

\* the attempt budget of the configured mode
Budget == IF bridgeConfigSolana.useFastTransfer = True THEN 60 ELSE 240

\* waitForAttestation returned to main
Returned == attested # NoAttestation

\* C1: an attestation value examined by waitForAttestation makes it return
\* if and only if the value is present, is not "PENDING" and starts with
\* "0x"; after any other value the loop is in the wait that ends the attempt
\* with no error raised, and an error is there only once the budget is spent.
C1_ReadyIffWellFormed ==
  Examined =>
    LET a == resp.messages[1].attestation
    IN  IF WellFormed(a)
          THEN /\ Returned
               /\ attested.attestation = a
               /\ pc \notin {"wa_fetch", "wa_sleep"}
               /\ error # "AttestationTimeout"
          ELSE /\ ~Returned
               /\ \/ pc = "wa_sleep" /\ error = "none"
                  \/ /\ pc \in {"catch", "exited"}
                     /\ error = "AttestationTimeout"
                     /\ i = Budget

\* a "0x"-only attestation was accepted, and the run is in the builder
C1_Witness ==
  /\ pc = "build"
  /\ Examined
  /\ resp.messages[1].attestation = <<"0", "x">>
  /\ attested.attestation = <<"0", "x">>

\* C2: the poller never sends more queries than its budget (60 in fast mode,
\* 240 in standard mode); when it fails with the timeout it has sent exactly
\* that many, and it sends none afterwards (the tally stays at the budget in
\* every state that follows the failure).
C2_ExactlyMaxAttempts ==
  /\ pc = "wa_fetch" => queries < Budget
  /\ pc = "wa_sleep" => queries <= Budget
  /\ error = "AttestationTimeout" =>
       /\ queries = Budget
       /\ i = Budget
       /\ pc \in {"catch", "exited"}
       /\ ~Returned
  /\ (pc \in {"catch", "exited"} /\ queries = Budget) =>
       error = "AttestationTimeout"

\* a standard-mode run that timed out after 240 queries and has exited
C2_Witness ==
  /\ pc = "exited"
  /\ error = "AttestationTimeout"
  /\ bridgeConfigSolana.useFastTransfer = False
  /\ queries = 240

\* C3: the builder is called, a transaction exists, or a submission is made
\* only after waitForAttestation returned an attestation that is ready, and
\* the transaction carries that attestation; a run whose poller timed out
\* has called neither.
C3_BuildOnlyAfterReady ==
  /\ (pc \in {"build", "submit"} \/ builds > 0 \/ submissions > 0
        \/ base64SerializedTx # NoTx) =>
       /\ Returned
       /\ WellFormed(attested.attestation)
       /\ error # "AttestationTimeout"
       /\ burnReceipt # NoBurnReceipt
  /\ base64SerializedTx # NoTx =>
       base64SerializedTx.attestation = attested.attestation
  /\ submissions > 0 => base64SerializedTx # NoTx
  /\ ~Returned => builds = 0 /\ submissions = 0

\* the transaction built from a ready attestation was submitted
C3_Witness ==
  /\ pc = "completed"
  /\ script = "manual"
  /\ submissions = 1
  /\ base64SerializedTx.attestation = <<"0", "x", "a", "1">>


\* the configured amount in smallest units, written out
ExpectedUnits ==
  CASE bridgeConfigSolana.amountUsdc = <<"0", ".", "1">> -> 100000
    [] bridgeConfigSolana.amountUsdc = <<"0", ".", "0", "0", "0", "1", "5">> -> 150
    [] bridgeConfigSolana.amountUsdc = <<"2">> -> 2000000

\* the kinds of the transactions submitted to the source chain, in order
TxKinds == [k \in 1..Len(chainTxs) |-> chainTxs[k].kind]

\* C4: while the balance read by burnUsdcOnEthereum is smaller than the
\* amount in smallest units, no transaction (approval or burn) has been
\* submitted to the source chain, and past the check the run has failed with
\* the insufficient-balance error.
C4_NoSubmissionWhenBalanceShort ==
  /\ amountInSmallestUnit # NoRead => amountInSmallestUnit = ExpectedUnits
  /\ (usdcBalance # NoRead /\ usdcBalance < ExpectedUnits) =>
       /\ chainTxs = <<>>
       /\ error = "InsufficientBalance"
       /\ pc \in {"catch", "exited"}
  /\ error = "InsufficientBalance" => chainTxs = <<>>

\* the balance was one unit short, the run failed and exited
C4_Witness ==
  /\ pc = "exited"
  /\ error = "InsufficientBalance"
  /\ usdcBalance = ExpectedUnits - 1
  /\ chainTxs = <<>>

\* C5: in burnUsdcOnEthereum, when the allowance read is at least the amount
\* no approval is ever submitted; when it is smaller, the burn is reached
\* and submitted only after an approval was submitted and its receipt
\* reported success, the approval being the transaction before the burn.
C5_AllowanceGating ==
  currentAllowance # NoRead =>
    IF currentAllowance >= ExpectedUnits
      THEN \A k \in 1..Len(chainTxs) : chainTxs[k].kind # "approve"
      ELSE /\ (pc \in {"burn_send", "burn_wait", "burn_parse"}
                 \/ \E k \in 1..Len(chainTxs) : chainTxs[k].kind = "burn") =>
                /\ Len(chainTxs) >= 1
                /\ chainTxs[1].kind = "approve"
                /\ approveReceipt = "success"
           /\ TxKinds \in { <<>>, <<"approve">>, <<"approve", "burn">> }

\* an approval was needed, was confirmed, and the burn was sent after it
C5_Witness ==
  /\ pc = "burn_wait"
  /\ currentAllowance = ExpectedUnits - 1
  /\ approveReceipt = "success"
  /\ TxKinds = <<"approve", "burn">>

\* the expected fee cap of the configured amount in fast mode, written out
ExpectedFastFee ==
  CASE ExpectedUnits = 100000 -> 10
    [] ExpectedUnits = 150 -> 0
    [] ExpectedUnits = 2000000 -> 200

\* C6: every burn call carries the configured amount in smallest units
\* ("0.1" is 100000); in fast mode it carries minFinalityThreshold 1000 and
\* maxFee = amount / 10000 rounded down (10 for 100000), in standard mode
\* minFinalityThreshold 2000 and maxFee 0.
C6_FeeAndFinality ==
  \A k \in 1..Len(chainTxs) :
    chainTxs[k].kind = "burn" =>
      /\ chainTxs[k].amount = ExpectedUnits
      /\ chainTxs[k].amount > 0
      /\ IF bridgeConfigSolana.useFastTransfer = True
           THEN /\ chainTxs[k].minFinalityThreshold = 1000
                /\ chainTxs[k].maxFee = ExpectedFastFee
                /\ chainTxs[k].maxFee * 10000 <= chainTxs[k].amount
                /\ chainTxs[k].amount < (chainTxs[k].maxFee + 1) * 10000
           ELSE /\ chainTxs[k].minFinalityThreshold = 2000
                /\ chainTxs[k].maxFee = 0

\* the burn of "0.1" in fast mode: amount 100000, threshold 1000, fee 10
C6_Witness ==
  /\ bridgeConfigSolana.amountUsdc = <<"0", ".", "1">>
  /\ bridgeConfigSolana.useFastTransfer = True
  /\ Len(chainTxs) = 1
  /\ chainTxs[1] = [ kind |-> "burn", amount |-> 100000, maxFee |-> 10,
                     minFinalityThreshold |-> 1000 ]

\* no log of the receipt has the MessageSent signature as its first topic, or
\* the first such log has no data
LacksMessageSent(r) ==
  \/ \A k \in 1..Len(r.logs) : r.logs[k].topic0 # MessageSentSignature
  \/ \E k \in 1..Len(r.logs) :
       /\ r.logs[k].topic0 = MessageSentSignature
       /\ \A h \in 1..(k - 1) : r.logs[h].topic0 # MessageSentSignature
       /\ r.logs[k].data \in {Undefined, <<>>}

\* C7: when the confirmed burn receipt lacks the MessageSent event (or its
\* data), the step that examines it fails with the missing-event error,
\* having sent no attestation query, built nothing and submitted nothing;
\* and once that error is raised no transaction is added to the source
\* chain (the burn is not retried) and no query, build or submission
\* follows.
C7_MissingEventIsFatal ==
  [][ /\ (pc = "burn_parse" /\ LacksMessageSent(receipt)) =>
           /\ pc' = "catch"
           /\ error' = "MissingBurnEvent"
           /\ chainTxs' = chainTxs
           /\ burnReceipt' = NoBurnReceipt
           /\ queries' = 0 /\ builds' = 0 /\ submissions' = 0
      /\ error' = "MissingBurnEvent" =>
           (pc = "burn_parse" /\ LacksMessageSent(receipt))
             \/ error = "MissingBurnEvent"
      /\ error = "MissingBurnEvent" =>
           /\ error' = "MissingBurnEvent"
           /\ pc' = "exited"
           /\ chainTxs' = chainTxs
           /\ queries' = queries /\ builds' = builds
           /\ submissions' = submissions /\ attested' = attested
    ]_vars

\* the receipt had a MessageSent log without data; the run failed and exited
\* after one burn, with no query, build or submission
C7_Witness ==
  /\ pc = "exited"
  /\ error = "MissingBurnEvent"
  /\ Len(receipt.logs) > 0
  /\ \E k \in 1..Len(receipt.logs) : receipt.logs[k].topic0 = MessageSentSignature
  /\ Cardinality({k \in 1..Len(chainTxs) : chainTxs[k].kind = "burn"}) = 1
  /\ queries = 0 /\ builds = 0 /\ submissions = 0

\* C8: an attempt whose query throws or is answered with a non-success
\* response raises nothing: it counts as one query of the budget and is
\* followed by the fixed wait (one query and one 5 s wait per attempt), and
\* the only error the poller raises is the timeout once the budget is spent.
C8_NetworkFailuresSwallowed ==
  /\ pc = "wa_fetch" => queries = i /\ waitedMs = i * 5000
  /\ pc = "wa_sleep" => queries = i + 1 /\ waitedMs = i * 5000
  /\ resp.kind \in {"throw", "notOk", "badJson"} =>
       \/ pc = "wa_sleep" /\ error = "none"
       \/ /\ pc \in {"catch", "exited"}
          /\ error = "AttestationTimeout"
          /\ queries = Budget
          /\ waitedMs = Budget * 5000
  /\ (queries > 0 /\ pc \in {"catch", "exited"}) => error = "AttestationTimeout"

\* a rejected fetch on the third attempt, followed by the wait
C8_Witness ==
  /\ pc = "wa_sleep"
  /\ resp.kind = "throw"
  /\ i = 2
  /\ queries = 3

\* C9: the record burnUsdcOnEthereum returns carries the hash of the very
\* message it carries.
C9_HashOfMessage ==
  burnReceipt # NoBurnReceipt =>
    /\ burnReceipt.messageHash = <<"keccak256", burnReceipt.message>>
    /\ burnReceipt.txHash = BurnTxHash
    /\ StartsWith(burnReceipt.message, <<"0", "x">>)

\* a two-byte message was returned with its hash
C9_Witness ==
  /\ pc = "wa_fetch"
  /\ burnReceipt.message = <<"0", "x", "a", "b", "c", "d">>
  /\ burnReceipt.messageHash = <<"keccak256", <<"0", "x", "a", "b", "c", "d">> >>

\* C10 (as claimed): a run that threw, or whose bridge result is in the
\* error state, has reported the error and ends with a non-zero status.
C10_FatalEndsNonZero ==
  (pc = "exited" /\ (error # "none" \/ bridgeResult = "error")) =>
    /\ reported
    /\ exitCode # 0

\* C11: submitToFordefiApi makes at most one call to the remote signer API in
\* a run and does not repeat it; a call that fails has raised the submission
\* error, which reaches the handler of main (report, exit status 1) and is
\* not swallowed: a run of the manual pipeline that ends with status 0 made
\* exactly one call, and it succeeded.
C11_SingleSubmission ==
  /\ submissions <= 1
  /\ submissions = 1 <=> apiResponse # "none"
  /\ pc = "submit_call" => submissions = 0
  /\ apiResponse = "failed" =>
       /\ error = "RemoteSubmissionFailed"
       /\ pc \in {"catch", "exited"}
       /\ pc = "exited" => reported /\ exitCode = 1
  /\ error = "RemoteSubmissionFailed" =>
       apiResponse = "failed" /\ submissions = 1
  /\ (pc = "exited" /\ exitCode = 0 /\ script \in {"manual", "manualAlt"}) =>
       apiResponse = "ok" /\ submissions = 1

\* the one call failed, and the run reported the error and exited with 1
C11_Witness ==
  /\ pc = "exited"
  /\ apiResponse = "failed"
  /\ error = "RemoteSubmissionFailed"
  /\ submissions = 1
  /\ reported
  /\ exitCode = 1

\* the characters of a decimal number
DecimalDigits == {"0", "1", "2", "3", "4", "5", "6", "7", "8", "9"}

\* C12: the string handed to the signer is "/api/v1/transactions", a bar, the
\* decimal digits of the timestamp, a bar, and the JSON body, in that order;
\* the timestamp and the body handed to createAndSignTx are the values in
\* that string, the signature handed over is the signature of that string,
\* and no call is made before the string is signed.
C12_CanonicalString ==
  /\ request # NoRequest =>
       /\ signedPayload # Undefined
       /\ \E n \in 1..(Len(signedPayload) - 22) :
            LET digits == SubSeq(signedPayload, 22, 21 + n)
            IN  /\ signedPayload =
                     << "/", "a", "p", "i", "/", "v", "1", "/", "t", "r", "a",
                        "n", "s", "a", "c", "t", "i", "o", "n", "s", "|" >>
                       \o digits \o << "|" >> \o request.requestBody
                /\ \A k \in 1..n : digits[k] \in DecimalDigits
                /\ n > 1 => digits[1] # "0"
                /\ DecValue(digits, 0) = request.timestamp
       /\ request.path = SubSeq(signedPayload, 1, 20)
       /\ request.signature =
            << "signature", signedPayload, bridgeConfigSolana.apiPayloadSignKey >>
  /\ (pc = "submit_call" \/ submissions > 0) => request # NoRequest

\* a string signed at time 42 was submitted, and the run completed
C12_Witness ==
  /\ pc = "completed"
  /\ submissions = 1
  /\ request.timestamp = 42
  /\ SubSeq(signedPayload, 21, 24) = << "|", "4", "2", "|" >>

\* the kinds of the instructions of the transaction built, in order
InstructionKinds ==
  [ k \in 1..Len(base64SerializedTx.instructions) |->
      base64SerializedTx.instructions[k].kind ]

\* C13 (as claimed): a transaction built while the recipient's associated
\* token account is missing holds an account-creation instruction followed
\* by the receive instruction; one built while the account exists holds the
\* receive instruction only.
C13_AtaCreationPrepended ==
  base64SerializedTx # NoTx =>
    IF recipientAta = "missing"
      THEN InstructionKinds = << "createAssociatedTokenAccount", "receiveMessage" >>
      ELSE InstructionKinds = << "receiveMessage" >>

\* the documented order of the remaining accounts
DocumentedAccounts ==
  << "tokenMessengerAccount", "remoteTokenMessengerKey", "tokenMinterAccount",
     "localToken", "tokenPair", "feeRecipientTokenAccount", "userTokenAccount",
     "custodyTokenAccount", "TOKEN_PROGRAM_ID", "tokenMessengerEventAuthority",
     "tokenMessengerMinterProgram" >>

\* the accounts documented as writable
DocumentedWritable ==
  { "tokenMinterAccount", "localToken", "feeRecipientTokenAccount",
    "userTokenAccount", "custodyTokenAccount" }

\* C14: the receive instruction of a built transaction has eleven remaining
\* accounts, in the order token messenger, remote token messenger, token
\* minter, local token, token pair, fee-recipient token account, recipient
\* token account, custody token account, token program, event authority,
\* token-messenger-minter program; none is a signer, and the writable ones
\* are exactly token minter, local token, fee recipient, recipient, custody.
C14_ElevenAccounts ==
  base64SerializedTx # NoTx =>
    /\ \E k \in 1..Len(base64SerializedTx.instructions) :
         base64SerializedTx.instructions[k].kind = "receiveMessage"
    /\ \A k \in 1..Len(base64SerializedTx.instructions) :
         base64SerializedTx.instructions[k].kind = "receiveMessage" =>
           LET accounts == base64SerializedTx.instructions[k].remainingAccounts
           IN  /\ Len(accounts) = 11
               /\ [ a \in 1..Len(accounts) |-> accounts[a].pubkey ]
                    = DocumentedAccounts
               /\ \A a \in 1..Len(accounts) :
                    /\ ~accounts[a].isSigner
                    /\ accounts[a].isWritable
                         <=> accounts[a].pubkey \in DocumentedWritable
               /\ Cardinality({ a \in 1..Len(accounts) : accounts[a].isWritable }) = 5

\* a transaction was built and handed to the submitter
C14_Witness ==
  /\ pc = "submit"
  /\ base64SerializedTx # NoTx
  /\ Len(base64SerializedTx.instructions) = 1
  /\ base64SerializedTx.instructions[1].kind = "receiveMessage"
  /\ Len(base64SerializedTx.instructions[1].remainingAccounts) = 11

\* the data of the log burnUsdcOnEthereum reads the message from
ParsedEventData == receipt.logs[FindMessageSentLog(receipt.logs)].data

\* the number held by the length field of event data that has one: the 64
\* hex digits that follow "0x" and the 32-byte offset word
DeclaredLength(eventData) == ParseIntHex(SubSeq(eventData, 67, 130))

\* C15 (as claimed): whenever burnUsdcOnEthereum returns a message cut out of
\* event data that has a length field, the message is "0x" followed by
\* exactly as many bytes (two hex digits each) as the field declares, and
\* they are the bytes that follow the field.
C15_ExactlyDeclaredBytes ==
  [][ (pc = "burn_parse" /\ pc' = "wa_fetch" /\ Len(ParsedEventData) >= 130) =>
        /\ Len(burnReceipt'.message) = 2 + 2 * DeclaredLength(ParsedEventData)
        /\ burnReceipt'.message =
             << "0", "x" >>
               \o SubSeq(ParsedEventData, 131,
                         130 + 2 * DeclaredLength(ParsedEventData))
    ]_vars

\* the number of transactions of a kind submitted to the source chain
Submitted(kind) ==
  Cardinality({ k \in 1..Len(chainTxs) : chainTxs[k].kind = kind })

\* C16: a run submits at most one approval and at most one burn to the
\* source chain, and never an approval after the burn; when
\* burnUsdcOnEthereum returns, exactly one burn was submitted, and one
\* approval if and only if the first allowance read was smaller than the
\* amount; nothing is submitted to the source chain after it returned.
C16_OneApprovalOneBurn ==
  [][ /\ TxKinds' \in { <<>>, << "approve" >>, << "burn" >>, << "approve", "burn" >> }
      /\ Submitted("approve")' <= 1
      /\ Submitted("burn")' <= 1
      /\ (pc = "burn_parse" /\ pc' = "wa_fetch") =>
           /\ Submitted("burn") = 1
           /\ currentAllowance # NoRead
           /\ Submitted("approve") = 1 <=> currentAllowance < amountInSmallestUnit
           /\ Submitted("approve") = 0 <=> currentAllowance >= amountInSmallestUnit
      /\ burnReceipt' # NoBurnReceipt =>
           TxKinds' \in { << "burn" >>, << "approve", "burn" >> }
      /\ burnReceipt # NoBurnReceipt => chainTxs' = chainTxs
    ]_vars

\* burnUsdcOnEthereum returned after an approval and a burn
C16_Witness ==
  /\ pc = "wa_fetch"
  /\ burnReceipt # NoBurnReceipt
  /\ TxKinds = << "approve", "burn" >>
  /\ queries = 0

\* the allowance read most recently by the running burnUsdcOnEthereum
LatestAllowance ==
  IF newAllowance # NoRead THEN newAllowance ELSE currentAllowance

\* C17: when the receipt of the approval does not report success, or the
\* allowance read again after the approval is still smaller than the amount,
\* the run has failed with the error of that check (approval failed, or
\* allowance still insufficient) and no burn was submitted; a burn is about
\* to be submitted, or was submitted, only when the most recent allowance
\* read is at least the amount.
C17_ApprovalFailureAborts ==
  /\ approveReceipt \notin {"none", "success"} =>
       /\ error = "ApprovalFailed"
       /\ pc \in {"catch", "exited"}
       /\ newAllowance = NoRead
       /\ TxKinds = << "approve" >>
  /\ (newAllowance # NoRead /\ newAllowance < ExpectedUnits) =>
       /\ error = "AllowanceStillInsufficient"
       /\ pc \in {"catch", "exited"}
       /\ TxKinds = << "approve" >>
  /\ error = "ApprovalFailed" =>
       approveReceipt = "reverted" /\ TxKinds = << "approve" >>
  /\ error = "AllowanceStillInsufficient" =>
       newAllowance < ExpectedUnits /\ TxKinds = << "approve" >>
  /\ (currentAllowance # NoRead /\ (pc = "burn_send" \/ Submitted("burn") > 0)) =>
       LatestAllowance >= ExpectedUnits

\* the approval was confirmed but the allowance read after it was one unit
\* short: the run failed and exited with the approval alone on the chain
C17_Witness ==
  /\ pc = "exited"
  /\ error = "AllowanceStillInsufficient"
  /\ approveReceipt = "success"
  /\ newAllowance = ExpectedUnits - 1
  /\ TxKinds = << "approve" >>

\* C18: when waitForAttestation gives up, the time it spent in its fixed
\* waits is its attempt budget times 5 s (300 s in fast mode, 1200 s in
\* standard mode), the error it throws reports that same duration in
\* minutes (5 or 20), and the error carries the hash of the burn
\* transaction; no other error carries a timeout report.
C18_TimeoutDuration ==
  /\ error = "AttestationTimeout" =>
       /\ waitedMs = Budget * 5000
       /\ waitedMs = IF bridgeConfigSolana.useFastTransfer = True
                       THEN 300000 ELSE 1200000
       /\ timeoutReport.minutes * 60 * 1000 = waitedMs
       /\ timeoutReport.txHash = burnReceipt.txHash
       /\ timeoutReport.txHash = << "0", "x", "b", "1" >>
  /\ error # "AttestationTimeout" => timeoutReport = NoReport

\* a fast-mode run gave up after 300 s and reported 5 minutes
C18_Witness ==
  /\ pc = "exited"
  /\ error = "AttestationTimeout"
  /\ bridgeConfigSolana.useFastTransfer = True
  /\ waitedMs = 300000
  /\ timeoutReport.minutes = 5

\* C19 (as claimed): when the builder was given a lookup-table address and
\* the table was not found, it has written its warning and returned a
\* transaction, and the run has not failed in the builder.
C19_UnresolvedAltTolerated ==
  altLookup = "notFound" =>
    /\ warned
    /\ base64SerializedTx # NoTx
    /\ error \notin {"ReferenceError", "AccountResolutionFailed"}

\* a required field of the configuration is absent
ConfigIncomplete ==
  \/ bridgeConfigSolana.ethereumChain = Undefined
  \/ bridgeConfigSolana.amountUsdc = Undefined
  \/ bridgeConfigSolana.useFastTransfer = Undefined
  \/ ~Truthy(bridgeConfigSolana.solanaRecipientAddress)
  \/ ~Truthy(bridgeConfigSolana.fordefiVaultId)
  \/ bridgeConfigSolana.apiUserToken = Undefined
  \/ bridgeConfigSolana.apiPayloadSignKey = Undefined

\* C20 (as claimed): a run of the manual pipeline whose configuration lacks
\* a required field submits no transaction to the source chain, sends no
\* attestation query, builds nothing and makes no remote submission, and
\* does not end with status 0.
C20_IncompleteConfigFailsAtStartup ==
  (ConfigIncomplete /\ script \in {"manual", "manualAlt"}) =>
    /\ chainTxs = <<>>
    /\ queries = 0
    /\ builds = 0
    /\ submissions = 0
    /\ exitCode # 0

\* C21 (as claimed): the message of a built receive transaction, and the
\* bytes embedded in its receive instruction, are those of the message the
\* attestation service returned with the ready attestation.
C21_OracleMessageEmbedded ==
  base64SerializedTx # NoTx =>
    /\ base64SerializedTx.message = attested.message
    /\ base64SerializedTx.attestation = attested.attestation
    /\ \A k \in 1..Len(base64SerializedTx.instructions) :
         base64SerializedTx.instructions[k].kind = "receiveMessage" =>
           base64SerializedTx.instructions[k].data.message
             = HexDecode(Replace0x(attested.message))

\* the first entry of response r holds an attestation that is ready
FirstEntryReady(r) ==
  /\ r.kind = "ok"
  /\ r.hasMessages
  /\ Len(r.messages) > 0
  /\ ~r.messages[1].isNull
  /\ WellFormed(r.messages[1].attestation)

\* C22: waitForAttestation returns at the first attempt whose response is
\* ready. Every attempt before the one in progress was answered, was not
\* ready and was followed by one wait; the attempt in progress returns to
\* main if and only if the first entry of its response is ready, whatever
\* the later entries hold; it is then query number i + 1 <= MAX_ATTEMPTS, no
\* wait follows it, and the pair returned is that first entry's.
C22_ReturnsAtFirstReady ==
  [][ pc = "wa_fetch" =>
        /\ queries = i
        /\ waitedMs = i * 5000
        /\ i < Budget
        /\ pc' \in {"build", "wa_sleep"}
        /\ pc' = "build" <=> FirstEntryReady(resp')
        /\ pc' = "build" =>
             /\ attested' = [ message |-> resp'.messages[1].message,
                              attestation |-> resp'.messages[1].attestation ]
             /\ error' = "none"
        /\ pc' = "wa_sleep" =>
             /\ queries' = i + 1
             /\ attested' = NoAttestation
    ]_vars

\* the poller returned the first entry of a two-entry response
C22_Witness ==
  /\ pc = "build"
  /\ FirstEntryReady(resp)
  /\ Len(resp.messages) = 2
  /\ attested.attestation = resp.messages[1].attestation
  /\ attested.message = resp.messages[1].message
  /\ queries = 0

=============================================================================
